---- MODULE Spec2Model ----
(***************************************************************************)
(* Model of bundle.py: the text rewrite remove_imports_exports (three      *)
(* re.sub passes under re.MULTILINE), the derivation of a module's display *)
(* name, and the run of bundle_modules over a module list and a disk.      *)
(*                                                                         *)
(* A text is a sequence of tokens.  A token is a string standing for       *)
(* itself: the keywords "import", "export", "from" are one token each,     *)
(* every other token is one character.  The regular expressions of the     *)
(* source only ever test a keyword as a whole or a character's class, so   *)
(* matching on tokens is matching on the characters they spell.            *)
(***************************************************************************)
EXTENDS Integers, Sequences, FiniteSets, TLC

IMPORT == "import"
EXPORT == "export"
FROM == "from"
SP == " "
NL == "\n"
SEMI == ";"
LBRACE == "{"
RBRACE == "}"
COMMA == ","

\* ['"] of the import patterns
Quote == {"'", "\""}

\* \s of the patterns, str.strip(): Python's whitespace class holds the
\* line break as well as the blank
Whitespace == {SP, NL}

Max(S) == CHOOSE x \in S : \A y \in S : y <= x
Min(S) == CHOOSE x \in S : \A y \in S : x <= y

(***************************************************************************)
(* Regular-expression matching.  A match attempt at position p of s gives  *)
(* the position just after the match, or 0 when the pattern does not match *)
(* at p.  Greedy quantifiers take the longest run first, lazy ones the     *)
(* shortest, and the first alternative that lets the rest match wins, as   *)
(* in Python's backtracking matcher.                                       *)
(***************************************************************************)

\* ^ under re.MULTILINE: the start of the text or just after a line break
AtBOL(s, p) == p = 1 \/ s[p - 1] = NL

\* $ under re.MULTILINE: the end of the text or just before a line break
AtEOL(s, e) == e = Len(s) + 1 \/ s[e] = NL

\* s[i..j-1] matches \s*
IsWs(s, i, j) == \A k \in i..(j - 1) : s[k] \in Whitespace

\* Mutant of NoNl: the patterns compiled with re.DOTALL, the dot matching a
\* line break too
NoNlDotAll(s, i, j) == \A k \in i..(j - 1) : s[k] = s[k]

\* s[i..j-1] matches .* (the dot matches anything but a line break)
NoNl(s, i, j) == \A k \in i..(j - 1) : s[k] # NL

\* \s*$ from k, greedy
Trail(s, k) ==
  LET E == {e \in k..(Len(s) + 1) : IsWs(s, k, e) /\ AtEOL(s, e)}
  IN IF E = {} THEN 0 ELSE Max(E)

\* ;?\s*$ from k
AfterQuote(s, k) ==
  IF k <= Len(s) /\ s[k] = SEMI /\ Trail(s, k + 1) # 0
  THEN Trail(s, k + 1)
  ELSE Trail(s, k)

\* ['"].*?['"];?\s*$ from c
QuotedTail(s, c) ==
  IF c > Len(s) \/ s[c] \notin Quote THEN 0
  ELSE LET D == {d \in (c + 1)..Len(s) :
                   /\ s[d] \in Quote
                   /\ NoNl(s, c + 1, d)
                   /\ AfterQuote(s, d + 1) # 0}
       IN IF D = {} THEN 0 ELSE AfterQuote(s, Min(D) + 1)

\* from\s+['"].*?['"];?\s*$ from b
FromTail(s, b) ==
  IF b > Len(s) \/ s[b] # FROM THEN 0
  ELSE LET C == {c \in (b + 2)..Len(s) :
                   IsWs(s, b + 1, c) /\ QuotedTail(s, c) # 0}
       IN IF C = {} THEN 0 ELSE QuotedTail(s, Max(C))

\* ^import\s+.*?from\s+['"].*?['"];?\s*$ at p
MatchImportFrom(s, p) ==
  IF ~(AtBOL(s, p) /\ s[p] = IMPORT) THEN 0
  ELSE LET B(a) == {b \in a..Len(s) : NoNl(s, a, b) /\ FromTail(s, b) # 0}
           A == {a \in (p + 2)..(Len(s) + 1) : IsWs(s, p + 1, a) /\ B(a) # {}}
       IN IF A = {} THEN 0 ELSE FromTail(s, Min(B(Max(A))))

\* ^import\s+{[^}]*}\s+from\s+['"].*?['"];?\s*$ at p
MatchImportBraces(s, p) ==
  IF ~(AtBOL(s, p) /\ s[p] = IMPORT) THEN 0
  ELSE LET T(r) == {b \in (r + 2)..Len(s) :
                      IsWs(s, r + 1, b) /\ FromTail(s, b) # 0}
           R(a) == {r \in (a + 1)..Len(s) :
                      /\ s[r] = RBRACE
                      /\ \A k \in (a + 1)..(r - 1) : s[k] # RBRACE
                      /\ T(r) # {}}
           A == {a \in (p + 2)..Len(s) :
                   IsWs(s, p + 1, a) /\ s[a] = LBRACE /\ R(a) # {}}
       IN IF A = {} THEN 0
          ELSE LET r == Max(R(Max(A))) IN FromTail(s, Max(T(r)))

\* ^export\s+ at p
MatchExport(s, p) ==
  IF ~(AtBOL(s, p) /\ s[p] = EXPORT) THEN 0
  ELSE LET E == {e \in (p + 2)..(Len(s) + 1) : IsWs(s, p + 1, e)}
       IN IF E = {} THEN 0 ELSE Max(E)

MatchAt(re, s, p) ==
  CASE re = "importFrom" -> MatchImportFrom(s, p)
    [] re = "importBraces" -> MatchImportBraces(s, p)
    [] re = "export" -> MatchExport(s, p)

\* re.sub(re, '', s) from position pos on: the leftmost match is dropped and
\* the scan goes on after it; a position with no match keeps its token
RECURSIVE SubFrom(_, _, _)
SubFrom(re, s, pos) ==
  IF pos > Len(s) THEN <<>>
  ELSE LET e == MatchAt(re, s, pos)
       IN IF e # 0 THEN SubFrom(re, s, e)
          ELSE <<s[pos]>> \o SubFrom(re, s, pos + 1)

\* Mutant of Sub: re.sub called with count=1, only the first match dropped
RECURSIVE SubFirstFrom(_, _, _)
SubFirstFrom(re, s, pos) ==
  IF pos > Len(s) THEN <<>>
  ELSE LET e == MatchAt(re, s, pos)
       IN IF e # 0 THEN SubSeq(s, e, Len(s))
          ELSE <<s[pos]>> \o SubFirstFrom(re, s, pos + 1)

SubFirst(re, s) == SubFirstFrom(re, s, 1)

Sub(re, s) == SubFrom(re, s, 1)

remove_imports_exports(content) ==
  Sub("export", Sub("importBraces", Sub("importFrom", content)))


\* str.strip(): leading and trailing whitespace dropped
RECURSIVE StripLeft(_)
StripLeft(s) ==
  IF s # <<>> /\ Head(s) \in Whitespace THEN StripLeft(Tail(s)) ELSE s

RECURSIVE StripRight(_)
StripRight(s) ==
  IF s # <<>> /\ s[Len(s)] \in Whitespace
  THEN StripRight(SubSeq(s, 1, Len(s) - 1))
  ELSE s

Strip(s) == StripRight(StripLeft(s))

(***************************************************************************)
(* The display name of a module: os.path.basename, str.replace('.js', ''), *)
(* str.upper().  A path is a sequence of one-character tokens.             *)
(***************************************************************************)

DotJs == <<".", "j", "s">>

\* os.path.basename: what follows the last "/"
Basename(p) ==
  LET S == {k \in 1..Len(p) : p[k] = "/"}
  IN IF S = {} THEN p ELSE SubSeq(p, Max(S) + 1, Len(p))

\* str.replace(old, ''): every occurrence of old, leftmost first, not
\* overlapping, is dropped
RECURSIVE Remove(_, _)
Remove(s, old) ==
  IF Len(s) < Len(old) THEN s
  ELSE IF SubSeq(s, 1, Len(old)) = old
       THEN Remove(SubSeq(s, Len(old) + 1, Len(s)), old)
       ELSE <<Head(s)>> \o Remove(Tail(s), old)

UpperChar(c) ==
  CASE c = "a" -> "A" [] c = "b" -> "B" [] c = "f" -> "F"
    [] c = "j" -> "J" [] c = "s" -> "S" [] OTHER -> c

\* str.upper()
Upper(s) == [k \in 1..Len(s) |-> UpperChar(s[k])]

\* module_name = os.path.basename(module_path).replace('.js', '')
ModuleName(module_path) == Remove(Basename(module_path), DotJs)

(***************************************************************************)
(* The segments bundle_modules appends to output.  The static header and   *)
(* the static bootstrap are abbreviated to the lines that tell them apart. *)
(***************************************************************************)

SEPLINE == "// ========================================"

Header == <<"/** Amazon Scraper Extension */", NL, NL, "\"use strict\";", NL, NL>>

Bootstrap ==
  <<NL, SEPLINE, NL, "// MAIN APPLICATION", NL, SEPLINE, NL, NL,
    "class AmazonScraperApp {}", NL, NL, "new AmazonScraperApp();", NL>>

\* f'\n// ====...', f'// {module_name.upper()} MODULE', f'// ====...\n'
DividerTop == <<NL, SEPLINE>>
NameLine(module_name) == <<"// ">> \o Upper(module_name) \o <<" MODULE">>
DividerBottom == <<SEPLINE, NL>>

\* '\n'.join(output)
RECURSIVE Join(_)
Join(segs) ==
  IF segs = <<>> THEN <<>>
  ELSE IF Len(segs) = 1 THEN segs[1]
  ELSE segs[1] \o <<NL>> \o Join(Tail(segs))

(***************************************************************************)
(* Bounds and input domains.                                               *)
(***************************************************************************)

\* longest module list tried (MODULES of the source is one list of nine)
MaxModules == 3
\* most lines of an input text of remove_imports_exports
MaxLines == 3
\* longest path whose display name is derived
MaxPathLen == 7

PathA == <<"a", "/", "f", ".", "j", "s">>
PathB == <<"b", "/", "f", ".", "j", "s">>
PathC == <<"s", ".", "j", "s">>
ModulePaths == {PathA, PathB, PathC}

PathChars == {"a", "/", ".", "j", "s"}
PathStrings == UNION {[1..n -> PathChars] : n \in 1..MaxPathLen}

ImportDefault == <<IMPORT, SP, "a", SP, FROM, SP, "'", "a", "'", SEMI>>
ImportNamed ==
  <<IMPORT, SP, LBRACE, SP, "a", COMMA, SP, "a", SP, RBRACE, SP, FROM, SP,
    "\"", "a", "\"", SEMI>>
ImportOpen == <<IMPORT, SP, LBRACE>>
ImportClose == <<RBRACE, SP, FROM, SP, "'", "a", "'", SEMI>>
ImportBinding == <<IMPORT, SP, "a">>
FromClause == <<FROM, SP, "'", "a", "'", SEMI>>
BindingFrom == <<"a", SP, FROM, SP, "'", "a", "'", SEMI>>

LineTemplates ==
  { ImportDefault, ImportNamed, <<>>, <<SP>>, <<"a">>,
    <<EXPORT, SP, "a">>, <<EXPORT, SP, EXPORT, SP, "a">>,
    <<EXPORT, SP>> \o ImportDefault, <<EXPORT>>, <<SP, EXPORT, SP, "a">>,
    ImportOpen, ImportClose, <<IMPORT>>, ImportBinding, FromClause,
    BindingFrom }

\* lines joined by line breaks
RECURSIVE JoinLines(_)
JoinLines(ls) ==
  IF ls = <<>> THEN <<>>
  ELSE IF Len(ls) = 1 THEN ls[1]
  ELSE ls[1] \o <<NL>> \o JoinLines(Tail(ls))

\* a text split at its line breaks
RECURSIVE Lines(_)
Lines(s) ==
  LET N == {k \in 1..Len(s) : s[k] = NL}
  IN IF N = {} THEN <<s>>
     ELSE <<SubSeq(s, 1, Min(N) - 1)>> \o Lines(SubSeq(s, Min(N) + 1, Len(s)))

LineLists == UNION {[1..n -> LineTemplates] : n \in 1..MaxLines}
Texts == {JoinLines(ls) : ls \in LineLists}

\* the files a module path may name
FileContents ==
  { <<EXPORT, SP, "c", "l", "a", "s", "s", SP, "A", SP, LBRACE, RBRACE>>,
    <<NL>> \o ImportDefault \o <<NL, NL, EXPORT, SP, "a", SEMI, NL>> }

Missing == [kind |-> "missing", data |-> <<>>]
Unreadable == [kind |-> "unreadable", data |-> <<>>]
DiskEntries ==
  {Missing, Unreadable} \cup {[kind |-> "file", data |-> c] : c \in FileContents}

\* content-refactored.js as a run finds it
OldFile == <<"previous bundle">>

(***************************************************************************)
(* State.                                                                  *)
(*   text, result, again, tstep: an input of remove_imports_exports, the   *)
(*     result of one application, of a second one, and how far it got      *)
(*   path, label, nstep: a module path and the label of its divider        *)
(*   modules, disk: the module list and what os.path.exists and open find  *)
(*   pc, i, output, stdout, outfile, exc, nwrites: a run of                *)
(*     bundle_modules: its position, the loop index, the output list, the  *)
(*     lines printed, the content of content-refactored.js, the exception  *)
(*     that ended the run, and the number of f.write calls made            *)
(***************************************************************************)
VARIABLES text, result, again, tstep,
          path, label, nstep,
          modules, disk, pc, i, output, stdout, outfile, exc, nwrites

textVars == <<text, result, again, tstep>>
nameVars == <<path, label, nstep>>
runVars == <<modules, disk, pc, i, output, stdout, outfile, exc, nwrites>>
vars == <<textVars, nameVars, runVars>>

NoText == text = <<>> /\ result = <<>> /\ again = <<>> /\ tstep = "idle"
NoName == path = <<>> /\ label = <<>> /\ nstep = "idle"
NoRun ==
  /\ modules = <<>> /\ disk = [p \in ModulePaths |-> Missing]
  /\ pc = "idle" /\ i = 0 /\ output = <<>> /\ stdout = <<>>
  /\ outfile = OldFile /\ exc = "none" /\ nwrites = 0

(***************************************************************************)
(* remove_imports_exports applied to a text, and to its own result.        *)
(***************************************************************************)
InitText ==
  /\ text \in Texts
  /\ result = <<>> /\ again = <<>> /\ tstep = "input"
  /\ NoName /\ NoRun

Rewrite ==
  /\ tstep = "input"
  /\ result' = remove_imports_exports(text)
  /\ tstep' = "once"
  /\ UNCHANGED <<text, again, nameVars, runVars>>

RewriteAgain ==
  /\ tstep = "once"
  /\ again' = remove_imports_exports(result)
  /\ tstep' = "twice"
  /\ UNCHANGED <<text, result, nameVars, runVars>>

NextText == Rewrite \/ RewriteAgain

SpecText == InitText /\ [][NextText]_vars

(***************************************************************************)
(* The label of a module's divider section.                                *)
(***************************************************************************)
InitName ==
  /\ path \in PathStrings
  /\ label = <<>> /\ nstep = "input"
  /\ NoText /\ NoRun

DeriveName ==
  /\ nstep = "input"
  /\ label' = Upper(ModuleName(path))
  /\ nstep' = "named"
  /\ UNCHANGED <<path, textVars, runVars>>

NextName == DeriveName

SpecName == InitName /\ [][NextName]_vars

(***************************************************************************)
(* bundle_modules.                                                         *)
(***************************************************************************)
ModuleLists == UNION {[1..n -> ModulePaths] : n \in 0..MaxModules}

Init ==
  /\ modules \in ModuleLists
  /\ disk \in [ModulePaths -> DiskEntries]
  /\ pc = "start" /\ i = 0 /\ output = <<>> /\ stdout = <<>>
  /\ outfile = OldFile /\ exc = "none" /\ nwrites = 0
  /\ NoText /\ NoName

\* Mutant of Start: the output file opened for writing before the loop
StartOpeningOutput ==
  /\ pc = "start"
  /\ output' = <<Header>>
  /\ i' = 1
  /\ pc' = "loop"
  /\ outfile' = <<>>
  /\ UNCHANGED <<modules, disk, stdout, exc, nwrites, textVars, nameVars>>

\* output = []; output.append(header)
Start ==
  /\ pc = "start"
  /\ output' = <<Header>>
  /\ i' = 1
  /\ pc' = "loop"
  /\ UNCHANGED <<modules, disk, stdout, outfile, exc, nwrites, textVars, nameVars>>

\* Mutant of SkipMissing: a missing module leaves an empty section behind
SkipMissingWithPlaceholder ==
  /\ pc = "loop" /\ i <= Len(modules)
  /\ disk[modules[i]].kind = "missing"
  /\ stdout' = Append(stdout, [kind |-> "warning", path |-> modules[i], n |-> 0])
  /\ output' = output \o <<DividerTop, NameLine(ModuleName(modules[i])),
                           DividerBottom, <<>>, <<NL>> >>
  /\ i' = i + 1
  /\ UNCHANGED <<modules, disk, pc, outfile, exc, nwrites, textVars, nameVars>>

\* if not os.path.exists(module_path): print warning; continue
SkipMissing ==
  /\ pc = "loop" /\ i <= Len(modules)
  /\ disk[modules[i]].kind = "missing"
  /\ stdout' = Append(stdout, [kind |-> "warning", path |-> modules[i], n |-> 0])
  /\ i' = i + 1
  /\ UNCHANGED <<modules, disk, pc, output, outfile, exc, nwrites, textVars, nameVars>>

\* open(module_path, 'r') or f.read() raises: nothing catches it
ReadFails ==
  /\ pc = "loop" /\ i <= Len(modules)
  /\ disk[modules[i]].kind = "unreadable"
  /\ exc' = "read"
  /\ pc' = "error"
  /\ UNCHANGED <<modules, disk, i, output, stdout, outfile, nwrites, textVars, nameVars>>

\* Mutant of BundleModule: a module whose name was bundled already is left out
BundleModuleOncePerName ==
  /\ pc = "loop" /\ i <= Len(modules)
  /\ disk[modules[i]].kind = "file"
  /\ LET content == Strip(remove_imports_exports(disk[modules[i]].data))
         module_name == ModuleName(modules[i])
     IN output' =
          IF \E k \in 1..Len(output) : output[k] = NameLine(module_name)
          THEN output
          ELSE output \o <<DividerTop, NameLine(module_name), DividerBottom,
                           content, <<NL>> >>
  /\ i' = i + 1
  /\ UNCHANGED <<modules, disk, pc, stdout, outfile, exc, nwrites, textVars, nameVars>>

\* read, remove_imports_exports, strip, append the divider, the content, '\n'
BundleModule ==
  /\ pc = "loop" /\ i <= Len(modules)
  /\ disk[modules[i]].kind = "file"
  /\ LET content == Strip(remove_imports_exports(disk[modules[i]].data))
         module_name == ModuleName(modules[i])
     IN output' = output \o <<DividerTop, NameLine(module_name), DividerBottom,
                              content, <<NL>> >>
  /\ i' = i + 1
  /\ UNCHANGED <<modules, disk, pc, stdout, outfile, exc, nwrites, textVars, nameVars>>

\* Mutant of AppendMain: the bootstrap left out when no module was bundled
AppendMainIfModules ==
  /\ pc = "loop" /\ i > Len(modules)
  /\ output' = IF Len(output) > 1 THEN Append(output, Bootstrap) ELSE output
  /\ pc' = "open"
  /\ UNCHANGED <<modules, disk, i, stdout, outfile, exc, nwrites, textVars, nameVars>>

\* the loop is over: output.append(main application)
AppendMain ==
  /\ pc = "loop" /\ i > Len(modules)
  /\ output' = Append(output, Bootstrap)
  /\ pc' = "open"
  /\ UNCHANGED <<modules, disk, i, stdout, outfile, exc, nwrites, textVars, nameVars>>

\* open('content-refactored.js', 'w') truncates the file, or raises
OpenOutput ==
  /\ pc = "open"
  /\ \E ok \in BOOLEAN :
       IF ok THEN outfile' = <<>> /\ pc' = "write" /\ exc' = exc
       ELSE outfile' = outfile /\ pc' = "error" /\ exc' = "open"
  /\ UNCHANGED <<modules, disk, i, output, stdout, nwrites, textVars, nameVars>>

\* f.write('\n'.join(output)), or the write raises and the file stays cut
WriteOutput ==
  /\ pc = "write"
  /\ nwrites' = nwrites + 1
  /\ \E ok \in BOOLEAN :
       IF ok THEN outfile' = Join(output) /\ pc' = "print" /\ exc' = exc
       ELSE outfile' = outfile /\ pc' = "error" /\ exc' = "write"
  /\ UNCHANGED <<modules, disk, i, output, stdout, textVars, nameVars>>

\* print(f"Successfully bundled {len(MODULES)} modules ...");
\* print(f"Total size: {len(bundled_content)} characters")
PrintSummary ==
  /\ pc = "print"
  /\ stdout' = stdout \o
       << [kind |-> "success", path |-> <<>>, n |-> Len(modules)],
          [kind |-> "size", path |-> <<>>, n |-> Len(Join(output))] >>
  /\ pc' = "done"
  /\ UNCHANGED <<modules, disk, i, output, outfile, exc, nwrites, textVars, nameVars>>

Next ==
  \/ Start \/ SkipMissing \/ ReadFails \/ BundleModule \/ AppendMain
  \/ OpenOutput \/ WriteOutput \/ PrintSummary

Spec == Init /\ [][Next]_vars

(***************************************************************************)
(* Properties of remove_imports_exports (checked under SpecText).          *)
(***************************************************************************)

IsImportLine(l) == l \in {ImportDefault, ImportNamed}
KeywordFree(l) == \A k \in 1..Len(l) : l[k] \notin {IMPORT, EXPORT}
HasToken(s, t) == \E k \in 1..Len(s) : s[k] = t

\* a text whose lines are single-line imports or hold no import or export
\* keyword, with at least one import among them
OwnLineImports(t) ==
  LET ls == Lines(t)
  IN /\ \E k \in 1..Len(ls) : IsImportLine(ls[k])
     /\ \A k \in 1..Len(ls) : IsImportLine(ls[k]) \/ KeywordFree(ls[k])

ImportsDropped(ls) == SelectSeq(ls, LAMBDA l : ~IsImportLine(l))
ImportsBlanked(ls) ==
  [k \in 1..Len(ls) |-> IF IsImportLine(ls[k]) THEN <<>> ELSE ls[k]]

\* C3: a single-line import on a line of its own is removed and every other
\* line is left verbatim, blank and whitespace-only lines after it included.
\* The import line may go with its line break or leave an empty line.
C3_ImportLineRemovedOthersVerbatim ==
  (tstep # "input" /\ OwnLineImports(text)) =>
    result \in { JoinLines(ImportsDropped(Lines(text))),
                 JoinLines(ImportsBlanked(Lines(text))) }

\* the line, taken alone, is one import statement matched whole
WholeLineImport(l) ==
  l # <<>> /\ (MatchImportFrom(l, 1) = Len(l) + 1 \/ MatchImportBraces(l, 1) = Len(l) + 1)

\* every import and export statement of the text is confined to one line:
\* a line holding import is one whole import statement, and every export is
\* followed on its line by whitespace and then a token other than export
\* or import
SingleLineStatements(t) ==
  \A n \in 1..Len(Lines(t)) :
    LET l == Lines(t)[n]
    IN /\ HasToken(l, IMPORT) => WholeLineImport(l)
       /\ \A k \in 1..Len(l) :
            l[k] = EXPORT =>
              LET rest == StripLeft(SubSeq(l, k + 1, Len(l)))
              IN /\ k < Len(l) /\ l[k + 1] \in Whitespace
                 /\ rest # <<>> /\ rest[1] \notin {IMPORT, EXPORT}

\* C4 as stated: remove_imports_exports is idempotent on every input text.
C4_Idempotent == tstep = "twice" => again = result

\* C4 amended: remove_imports_exports is idempotent on every input text
\* whose import and export statements are each confined to one line.
C4_IdempotentOnSingleLineStatements ==
  (tstep = "twice" /\ SingleLineStatements(text)) => again = result

C4_Witness ==
  /\ tstep = "twice"
  /\ text = JoinLines(<<ImportDefault, <<EXPORT, SP, "a">>, <<SP, EXPORT, SP, "a">> >>)
  /\ SingleLineStatements(text)
  /\ result = <<NL, "a", NL, SP, EXPORT, SP, "a">>
  /\ again = result

ExportStripped(l) ==
  IF Len(l) >= 2 /\ l[1] = EXPORT /\ l[2] \in Whitespace
  THEN StripLeft(Tail(l))
  ELSE l

\* C5: in a text with no import, each line that begins with export and
\* whitespace loses exactly that prefix, every other line is unchanged, and
\* the lines stay as many as they were (an export that ends its line keeps
\* its line, emptied or not).
C5_ExportStrippedLineByLine ==
  (tstep # "input" /\ ~HasToken(text, IMPORT)) =>
    LET ls == Lines(text)
        rs == Lines(result)
    IN /\ Len(rs) = Len(ls)
       /\ \A k \in 1..Len(ls) :
            \/ rs[k] = ExportStripped(ls[k])
            \/ ls[k] = <<EXPORT>> /\ rs[k] = <<>>

\* import statements broken over lines
MultiLineImports ==
  { JoinLines(<<ImportOpen, <<SP, "a", COMMA>>, ImportClose>>),
    JoinLines(<<ImportOpen, ImportClose>>),
    JoinLines(<< <<IMPORT>>, BindingFrom >>),
    JoinLines(<<ImportBinding, FromClause>>) }

C10_LabelStripsOnlyExtension ==
  LET base == Basename(path)
  IN ( /\ nstep = "named"
       /\ Len(base) > 3
       /\ base[1] # "."
       /\ SubSeq(base, Len(base) - 2, Len(base)) = DotJs )
     => label = Upper(SubSeq(base, 1, Len(base) - 3))

(***************************************************************************)
(* Properties of bundle_modules (checked under Spec).                      *)
(***************************************************************************)

Present(ms) == SelectSeq(ms, LAMBDA p : disk[p].kind # "missing")
Absent(ms) == SelectSeq(ms, LAMBDA p : disk[p].kind = "missing")
Written == pc \in {"print", "done"}

\* the labels of the divider sections of a bundle, in order
RECURSIVE Labels(_)
Labels(f) ==
  LET K == {k \in 1..Len(f) : f[k] = "// "}
  IN IF K = {} THEN <<>>
     ELSE LET k == Min(K)
              m == Min({j \in (k + 1)..Len(f) : f[j] = " MODULE"})
          IN <<SubSeq(f, k + 1, m - 1)>> \o Labels(SubSeq(f, m + 1, Len(f)))

Count(f, t) == Cardinality({k \in 1..Len(f) : f[k] = t})

Printed(kind) == SelectSeq(stdout, LAMBDA l : l.kind = kind)

\* the label the specification gives each module path of the model: the
\* filename without its directory and extension, upper-cased
ExpectedLabel(p) ==
  CASE p = PathA -> <<"F">> [] p = PathB -> <<"F">> [] p = PathC -> <<"S">>

\* C1: a missing path never ends the run; the written bundle comes with
\* one warning per missing list entry, naming it, in list order, and holds
\* one divider section per present entry and nothing for a missing one.
C1_MissingWarnedAndOmitted ==
  /\ pc = "error" =>
       \/ exc \in {"open", "write"}
       \/ exc = "read" /\ i <= Len(modules) /\ disk[modules[i]].kind = "unreadable"
  /\ Written =>
       /\ Len(Printed("warning")) = Len(Absent(modules))
       /\ \A k \in 1..Len(Absent(modules)) :
            Printed("warning")[k].path = Absent(modules)[k]
       /\ Len(Labels(outfile)) = Len(Present(modules))
       /\ Count(outfile, SEPLINE) = 2 * Len(Present(modules)) + 2

C1_Witness ==
  /\ pc = "done"
  /\ Len(modules) = 3
  /\ disk[modules[1]].kind = "file"
  /\ disk[modules[2]].kind = "missing"
  /\ disk[modules[3]].kind = "file"
  /\ Len(Printed("warning")) = 1

\* C2: the written bundle starts with the header and ends with the
\* bootstrap, and its divider labels are, entry for entry and in list order,
\* the labels of the present entries of the module list.
C2_SectionsFollowListOrder ==
  Written =>
    /\ SubSeq(outfile, 1, Len(Header)) = Header
    /\ SubSeq(outfile, Len(outfile) - Len(Bootstrap) + 1, Len(outfile)) = Bootstrap
    /\ HasToken(Bootstrap, "new AmazonScraperApp();")
    /\ Labels(outfile) =
         [k \in 1..Len(Present(modules)) |-> ExpectedLabel(Present(modules)[k])]

C2_Witness ==
  /\ pc = "done"
  /\ modules = <<PathA, PathC, PathB>>
  /\ \A p \in ModulePaths : disk[p].kind = "file"
  /\ Labels(outfile) = << <<"F">>, <<"S">>, <<"F">> >>

\* C7: f.write is called at most once and only when the loop is over; a
\* failed read ends the run with the old output file untouched and no
\* success summary printed.
C7_WriteOnceAfterTheLoop ==
  /\ nwrites <= 1
  /\ (nwrites > 0 \/ outfile # OldFile) => i > Len(modules)
  /\ exc = "read" =>
       /\ pc = "error"
       /\ outfile = OldFile
       /\ Printed("success") = <<>>

C7_Witness ==
  /\ exc = "read"
  /\ i = 3
  /\ Len(output) > 1
  /\ outfile = OldFile

\* C8: with an empty module list, or one whose every path is missing, the
\* written bundle is the header followed by the bootstrap, with no divider
\* section.
C8_NoModulesHeaderAndBootstrap ==
  (Written /\ Present(modules) = <<>>) =>
    /\ outfile = Header \o <<NL>> \o Bootstrap
    /\ Labels(outfile) = <<>>

C8_Witness ==
  /\ pc = "done"
  /\ modules = <<>>
  /\ outfile # OldFile

\* C9: the module count of the success summary is the number of list
\* entries read and appended; a skipped entry is not counted.
C9_CountIsModulesBundled ==
  pc = "done" =>
    /\ Len(Printed("success")) = 1
    /\ Printed("success")[1].n = Len(Present(modules))

====
